---- MODULE Spec2Model ----
(***************************************************************************)
(* Shamir secret sharing with two commitment schemes                        *)
(* (src/src/shamir.rs, src/src/vss.rs, src/src/verifiable_secret.rs,        *)
(* src/src/main.rs).                                                        *)
(*                                                                          *)
(* Spec       a SharmirModel session and a VerifiableSecretSharing object   *)
(*            driven through their public methods in any order.             *)
(* SpecVerify sessions with 1 <= threshold <= shares, up to six shares,     *)
(*            whose shares are generated and then verified.                 *)
(* SpecMain   the run of main() for given command-line arguments.           *)
(* SpecModExp mod_exp applied to given arguments.                           *)
(* SpecWide   threshold-1 sessions whose secret needs the full width of an  *)
(*            i64: values are bit strings, least significant bit first.     *)
(***************************************************************************)
EXTENDS Integers, Sequences, FiniteSets, TLC

VARIABLES s, m, vss, ret, evalLog, reconstructCalled, panicked, pc,
          coefficients, sum, reconstructed_secret, is_valid, me, w

vars == <<s, m, vss, ret, evalLog, reconstructCalled, panicked, pc,
          coefficients, sum, reconstructed_secret, is_valid, me, w>>

(* ------------------------------ bounds -------------------------------- *)
MaxSecret == 4
MaxShares == 3
MaxThreshold == 2
VerifyMaxSecret == 3
VerifyMaxShares == 6
MainMaxSecret == 4
MainMaxShares == 3
MainMaxThreshold == 3
ModExpMaxBase == 5
ModExpMaxExp == 4
ModExpMaxModulus == 5
WideMaxLow == 8
WideMaxShares == 3

(* ------------------------- program constants -------------------------- *)
VssP == 2039
VssQ == 1019
VssG == 2
MainPrime == 101
MainGenerator == 2

(* ----------------------- integer arithmetic --------------------------- *)
\* Rust's `/` on i64 truncates toward zero.
RustDiv(a, b) ==
  IF a >= 0 THEN a \div b ELSE -((-a) \div b)

\* Rust's `%` on i64 takes the sign of the dividend.
RustRem(a, b) ==
  IF a >= 0 THEN a % b ELSE -((-a) % b)

RECURSIVE Pow(_, _)
\* i64::pow
Pow(x, n) ==
  IF n = 0 THEN 1 ELSE x * Pow(x, n - 1)

RECURSIVE ModPow(_, _, _)
\* BigInt::modpow for a non-negative base and exponent (a negative exponent
\* panics: see VSSCommitmentsNewPanics and VerifySharePanics).
ModPow(b, e, modulus) ==
  IF e = 0 THEN 1 % modulus
  ELSE LET h == ModPow(b, e \div 2, modulus)
           sq == (h * h) % modulus
       IN  IF e % 2 = 1 THEN (sq * (b % modulus)) % modulus ELSE sq

(* ------------------------------ vss.rs -------------------------------- *)
\* VSSCommitments::new panics when a coefficient is negative
\* (BigInt::modpow: "negative exponentiation is not supported!").
VSSCommitmentsNewPanics(coeffs) ==
  \E i \in 1..Len(coeffs) : coeffs[i] < 0

VSSCommitmentsNew(coeffs) ==
  [i \in 1..Len(coeffs) |-> ModPow(VssG, coeffs[i], VssP)]

\* The exponent applied to commitment number i (0-based) at coordinate x.
VSSPower(x, i) ==
  ModPow(x, i, VssP)

RECURSIVE VSSExpected(_, _, _)
\* The loop of VSSCommitments::verify_share over the first n commitments.
VSSExpected(commitments, x, n) ==
  IF n = 0 THEN 1
  ELSE LET term == ModPow(commitments[n], VSSPower(x, n - 1), VssP)
       IN  (VSSExpected(commitments, x, n - 1) * term) % VssP

VSSVerifyShare(commitments, x, share) ==
  VSSExpected(commitments, x, Len(commitments)) = ModPow(VssG, share, VssP)

(* ----------------------------- shamir.rs ------------------------------ *)
NoCommitments == [some |-> FALSE, commitments |-> <<>>]

SharmirModelNew(secret, shares, threshold) ==
  [secret |-> secret, shares |-> shares, threshold |-> threshold,
   generated_shares |-> <<>>, coefficients |-> <<>>,
   vss_commitments |-> NoCommitments]

\* A construct_polynomial that draws fresh coefficients on every call.
NeedsCoefficientsAlways(sess) ==
  TRUE

\* `if self.coefficients.is_empty()`
NeedsCoefficients(sess) ==
  sess.coefficients = <<>>

\* Number of random coefficients drawn by `for _ in 1..self.threshold`.
RandomCount(sess) ==
  IF sess.threshold >= 1 THEN sess.threshold - 1 ELSE 0

\* rng.gen_range(1..=self.secret / 2) panics on an empty range.
GenRangePanics(sess) ==
  RandomCount(sess) >= 1 /\ RustDiv(sess.secret, 2) < 1

\* Every coefficient vector the generation branch can store.
CoefficientChoices(sess) ==
  { <<sess.secret>> \o t :
      t \in [1..RandomCount(sess) -> 1..RustDiv(sess.secret, 2)] }

RECURSIVE PolynomialSum(_, _, _)
\* sum = secret + coefficients[1] * x^1 + ... (the loop over coefficients[1..])
PolynomialSum(sess, x, n) ==
  IF n <= 1 THEN sess.secret
  ELSE PolynomialSum(sess, x, n - 1) + sess.coefficients[n] * Pow(x, n - 1)

\* construct_polynomial: the set of outcomes of one call.
ConstructPolynomial(sess, x) ==
  IF NeedsCoefficients(sess)
  THEN IF GenRangePanics(sess)
       THEN {[sess |-> [sess EXCEPT !.coefficients = <<sess.secret>>],
              value |-> 0, panic |-> TRUE]}
       ELSE { IF VSSCommitmentsNewPanics(c)
              THEN [sess |-> [sess EXCEPT !.coefficients = c],
                    value |-> 0, panic |-> TRUE]
              ELSE LET t == [sess EXCEPT !.coefficients = c,
                                         !.vss_commitments =
                                            [some |-> TRUE,
                                             commitments |-> VSSCommitmentsNew(c)]]
                   IN  [sess |-> t,
                        value |-> PolynomialSum(t, x, Len(t.coefficients)),
                        panic |-> FALSE]
              : c \in CoefficientChoices(sess) }
  ELSE {[sess |-> sess,
         value |-> PolynomialSum(sess, x, Len(sess.coefficients)),
         panic |-> FALSE]}

\* SharmirModel::verify_share (a negative share panics in modpow).
VerifySharePanics(sess, x, share) ==
  sess.vss_commitments.some /\ share < 0

\* A verify_share that accepts whatever it is given once commitments exist.
VerifyShareAccepts(sess, x, share) ==
  sess.vss_commitments.some

VerifyShare(sess, x, share) ==
  IF sess.vss_commitments.some
  THEN VSSVerifyShare(sess.vss_commitments.commitments, x, share)
  ELSE FALSE

\* First x coordinate used by generate_shares: `for i in 0..self.shares`.
FirstX == 0

RECURSIVE GenerateSharesLoop(_, _, _)
GenerateSharesLoop(sess, i, new_shares) ==
  IF i >= sess.shares
  THEN {[sess |-> [sess EXCEPT !.generated_shares = new_shares],
         panic |-> FALSE]}
  ELSE UNION { IF o.panic
               THEN {[sess |-> o.sess, panic |-> TRUE]}
               ELSE GenerateSharesLoop(o.sess, i + 1,
                                       Append(new_shares,
                                              <<FirstX + i, o.value>>))
               : o \in ConstructPolynomial(sess, FirstX + i) }

GenerateShares(sess) ==
  GenerateSharesLoop(sess, 0, <<>>)

\* lagrange_basis: (numerator, denominator) for share_index (1-based here).
RECURSIVE LagrangeNumerator(_, _, _)
LagrangeNumerator(share_index, x_values, n) ==
  IF n = 0 THEN 1
  ELSE LagrangeNumerator(share_index, x_values, n - 1)
       * (IF n # share_index THEN x_values[n] ELSE 1)

RECURSIVE LagrangeDenominator(_, _, _)
LagrangeDenominator(share_index, x_values, n) ==
  IF n = 0 THEN 1
  ELSE LagrangeDenominator(share_index, x_values, n - 1)
       * (IF n # share_index THEN x_values[n] - x_values[share_index] ELSE 1)

\* split_shares
XValues(shares) == [i \in 1..Len(shares) |-> shares[i][1]]
YValues(shares) == [i \in 1..Len(shares) |-> shares[i][2]]

RECURSIVE LagrangeSum(_, _)
\* The running `result` after the first n terms, as an exact fraction
\* <<numerator, denominator>>.  Every value here is an integer below 2^31,
\* so `as f64` and the products are exact in f64; each quotient is within
\* 2^-53 relative error of the fraction, far less than the distance of a
\* fraction with these denominators from the nearest half-integer.
LagrangeSum(shares, n) ==
  IF n = 0 THEN <<0, 1>>
  ELSE LET prev == LagrangeSum(shares, n - 1)
           num == YValues(shares)[n]
                  * LagrangeNumerator(n, XValues(shares), Len(shares))
           den == LagrangeDenominator(n, XValues(shares), Len(shares))
       IN  <<prev[1] * den + num * prev[2], prev[2] * den>>

\* f64::round (half away from zero) followed by `as i64`.
RoundToI64(frac) ==
  LET n == IF frac[2] > 0 THEN frac[1] ELSE -frac[1]
      d == IF frac[2] > 0 THEN frac[2] ELSE -frac[2]
  IN  IF n >= 0 THEN (2 * n + d) \div (2 * d)
      ELSE -((2 * (-n) + d) \div (2 * d))

\* reconstruct_secret: returns an i64 for every slice, and reads no field.
ReconstructSecret(sess, shares) ==
  RoundToI64(LagrangeSum(shares, Len(shares)))

(* ------------------------ verifiable_secret.rs ------------------------ *)
RECURSIVE ModExpLoop(_, _, _, _)
\* The `while exp > 0` loop of mod_exp, with Rust's truncating `%` and `/`.
ModExpLoop(result, base, exp, modulus) ==
  IF exp > 0
  THEN ModExpLoop(IF RustRem(exp, 2) = 1
                  THEN RustRem(result * base, modulus) ELSE result,
                  RustRem(base * base, modulus),
                  RustDiv(exp, 2), modulus)
  ELSE result

\* `let mut base = base % modulus;`
ModExpReduce(base, modulus) ==
  RustRem(base, modulus)

mod_exp(base, exp, modulus) ==
  ModExpLoop(1, ModExpReduce(base, modulus), exp, modulus)

VerifiableSecretSharingNew(prime, generator) ==
  [prime |-> prime, generator |-> generator, commitments |-> <<>>]

generate_commitments(v, coeffs) ==
  [v EXCEPT !.commitments =
     [i \in 1..Len(coeffs) |-> mod_exp(v.generator, coeffs[i], v.prime)]]

RECURSIVE calculate_rhs_loop(_, _, _)
\* The loop of calculate_rhs over the first n commitments; power_of_x = x^(n-1)
\* when commitment n is used.
calculate_rhs_loop(v, x, n) ==
  IF n = 0 THEN 1
  ELSE RustRem(calculate_rhs_loop(v, x, n - 1)
               * mod_exp(v.commitments[n], Pow(x, n - 1), v.prime), v.prime)

calculate_rhs(v, x) ==
  calculate_rhs_loop(v, x, Len(v.commitments))

vss_verify_share(v, x, y) ==
  mod_exp(v.generator, y, v.prime) = calculate_rhs(v, x)

(* --------------------------- the API driver ---------------------------- *)
\* Order of MainGenerator modulo MainPrime (2 is a primitive root of 101).
MainOrder == MainPrime - 1

\* Amounts added to a share's y before it is verified (0: the share itself).
Deltas == {-1, 0, 1, VssQ}
VssDeltas == {-1, 0, 1, MainOrder}

\* Coordinates construct_polynomial is called with directly: main.rs calls
\* it with 1 (the diagnostic value) and with 0.
DirectXs == {0, 1}

NoRet ==
  [op |-> "none", x |-> 0, y |-> 0, d |-> 0, idx |-> 0, len |-> 0,
   value |-> 0, res |-> FALSE, repeat |-> FALSE, err |-> "none"]

IdleSession == SharmirModelNew(0, 0, 0)

IdleMe == [base |-> 0, exp |-> 0, modulus |-> 2, result |-> 0, done |-> FALSE]

\* Every subset of the indices 1..n, in ascending and in descending order.
Selections(n) ==
  UNION { { q \in [1..k -> 1..n] :
              \/ \A i, j \in 1..k : i < j => q[i] < q[j]
              \/ \A i, j \in 1..k : i < j => q[i] > q[j] } : k \in 0..n }

Pick(shares, q) ==
  [i \in 1..Len(q) |-> shares[q[i]]]

Secrets == (-1)..MaxSecret

\* Everything but the session under test, before any call.
InitApi ==
  /\ m = IdleSession
  /\ vss = VerifiableSecretSharingNew(MainPrime, MainGenerator)
  /\ ret = NoRet
  /\ evalLog = <<>>
  /\ reconstructCalled = FALSE
  /\ panicked = FALSE
  /\ coefficients = <<>>
  /\ sum = 0
  /\ reconstructed_secret = 0
  /\ is_valid = <<>>
  /\ me = IdleMe
  /\ w = 0

Init ==
  /\ \E secret \in Secrets, shares \in 0..MaxShares, threshold \in 0..MaxThreshold :
       s = SharmirModelNew(secret, shares, threshold)
  /\ InitApi
  /\ pc = "api"

InitVerify ==
  /\ \E secret \in 2..VerifyMaxSecret, shares \in 1..VerifyMaxShares :
       \E threshold \in 1..shares :
         s = SharmirModelNew(secret, shares, threshold)
  /\ InitApi
  /\ pc = "api"

MainVars == <<m, pc, coefficients, sum, reconstructed_secret, is_valid>>
OtherVars == <<me, w>>

\* evalLog remembers one earlier call, any one: <<x, value returned>>.
CallConstructPolynomial(x) ==
  /\ ~panicked
  /\ \E o \in ConstructPolynomial(s, x) :
       /\ s' = o.sess
       /\ panicked' = o.panic
       /\ ret' = IF o.panic THEN [NoRet EXCEPT !.op = "panic"]
                 ELSE [NoRet EXCEPT !.op = "construct_polynomial", !.x = x,
                                    !.value = o.value,
                                    !.repeat = (evalLog # <<>> /\ evalLog[1] = x)]
       /\ \/ evalLog' = evalLog
          \/ ~o.panic /\ evalLog' = <<x, o.value>>
  /\ UNCHANGED <<vss, reconstructCalled, MainVars, OtherVars>>

CallGenerateShares ==
  /\ ~panicked
  /\ \E o \in GenerateShares(s) :
       /\ s' = o.sess
       /\ panicked' = o.panic
       /\ ret' = IF o.panic THEN [NoRet EXCEPT !.op = "panic"]
                 ELSE [NoRet EXCEPT !.op = "generate_shares"]
  /\ UNCHANGED <<vss, evalLog, reconstructCalled, MainVars, OtherVars>>

CallGetShares ==
  /\ ~panicked
  /\ ret' = [NoRet EXCEPT !.op = "get_shares", !.len = Len(s.generated_shares)]
  /\ UNCHANGED <<s, vss, evalLog, reconstructCalled, panicked, MainVars, OtherVars>>

\* verify_share on share number idx with d added to its y.
CallVerifyShare(idx, d) ==
  /\ ~panicked
  /\ LET x == s.generated_shares[idx][1]
         y == s.generated_shares[idx][2] + d
     IN  IF VerifySharePanics(s, x, y)
         THEN /\ panicked' = TRUE
              /\ ret' = [NoRet EXCEPT !.op = "panic"]
         ELSE /\ panicked' = FALSE
              /\ ret' = [NoRet EXCEPT !.op = "verify_share", !.x = x, !.y = y,
                                      !.d = d, !.idx = idx,
                                      !.res = VerifyShare(s, x, y)]
  /\ UNCHANGED <<s, vss, evalLog, reconstructCalled, MainVars, OtherVars>>

\* verify_share on a pair that is no share of the session.
CallVerifyProbe(x, y) ==
  /\ ~panicked
  /\ ret' = [NoRet EXCEPT !.op = "verify_probe", !.x = x, !.y = y,
                          !.res = VerifyShare(s, x, y)]
  /\ UNCHANGED <<s, vss, evalLog, reconstructCalled, panicked, MainVars, OtherVars>>

CallReconstructSecret(q) ==
  /\ ~panicked
  /\ ret' = [NoRet EXCEPT !.op = "reconstruct_secret", !.len = Len(q),
                          !.value = ReconstructSecret(s, Pick(s.generated_shares, q))]
  /\ reconstructCalled' = TRUE
  /\ UNCHANGED <<s, vss, evalLog, panicked, MainVars, OtherVars>>

CallGenerateCommitments ==
  /\ ~panicked
  /\ vss' = generate_commitments(vss, s.coefficients)
  /\ ret' = [NoRet EXCEPT !.op = "generate_commitments"]
  /\ UNCHANGED <<s, evalLog, reconstructCalled, panicked, MainVars, OtherVars>>

CallVssVerifyShare(idx, d) ==
  /\ ~panicked
  /\ LET x == s.generated_shares[idx][1]
         y == s.generated_shares[idx][2] + d
     IN  ret' = [NoRet EXCEPT !.op = "vss_verify_share", !.x = x, !.y = y,
                              !.d = d, !.idx = idx,
                              !.res = vss_verify_share(vss, x, y)]
  /\ UNCHANGED <<s, vss, evalLog, reconstructCalled, panicked, MainVars, OtherVars>>

Next ==
  \/ \E x \in DirectXs : CallConstructPolynomial(x)
  \/ CallGenerateShares
  \/ CallGetShares
  \/ \E idx \in 1..Len(s.generated_shares), d \in Deltas : CallVerifyShare(idx, d)
  \/ CallVerifyProbe(0, 0)
  \/ \E q \in Selections(Len(s.generated_shares)) : CallReconstructSecret(q)
  \/ CallGenerateCommitments
  \/ \E idx \in 1..Len(s.generated_shares), d \in VssDeltas : CallVssVerifyShare(idx, d)

Spec == Init /\ [][Next]_vars

NextVerify ==
  \/ CallGenerateShares
  \/ \E idx \in 1..Len(s.generated_shares) : CallVerifyShare(idx, 0)

SpecVerify == InitVerify /\ [][NextVerify]_vars

(* ------------------------------ main.rs -------------------------------- *)
InitMain ==
  /\ \E secret \in (-1)..MainMaxSecret, shares \in 0..MainMaxShares,
        threshold \in 0..MainMaxThreshold :
       s = SharmirModelNew(secret, shares, threshold)
  /\ InitApi
  /\ pc = "clone"

ApiVars == <<ret, evalLog, reconstructCalled>>

\* let mut m = s.clone();
MainClone ==
  /\ pc = "clone"
  /\ m' = s
  /\ pc' = "generate_shares"
  /\ UNCHANGED <<s, vss, panicked, coefficients, sum, reconstructed_secret,
                 is_valid, ApiVars, OtherVars>>

\* s.generate_shares(); let shares = s.get_shares();
MainGenerateShares ==
  /\ pc = "generate_shares"
  /\ \E o \in GenerateShares(s) :
       /\ s' = o.sess
       /\ panicked' = o.panic
       /\ pc' = IF o.panic THEN "panicked" ELSE "construct_polynomial"
  /\ UNCHANGED <<m, vss, coefficients, sum, reconstructed_secret, is_valid,
                 ApiVars, OtherVars>>

\* let sum = m.construct_polynomial(1);
MainConstructPolynomial ==
  /\ pc = "construct_polynomial"
  /\ \E o \in ConstructPolynomial(m, 1) :
       /\ m' = o.sess
       /\ panicked' = o.panic
       /\ sum' = o.value
       /\ pc' = IF o.panic THEN "panicked" ELSE "reconstruct_secret"
  /\ UNCHANGED <<s, vss, coefficients, reconstructed_secret, is_valid,
                 ApiVars, OtherVars>>

\* let reconstructed_secret = m.reconstruct_secret(shares);
MainReconstructSecret ==
  /\ pc = "reconstruct_secret"
  /\ reconstructed_secret' = ReconstructSecret(m, s.generated_shares)
  /\ pc' = "coefficients"
  /\ UNCHANGED <<s, m, vss, panicked, coefficients, sum, is_valid,
                 ApiVars, OtherVars>>

\* The value construct_polynomial returns on a session that has coefficients.
Evaluate(sess, x) ==
  (CHOOSE o \in ConstructPolynomial(sess, x) : TRUE).value

\* let mut vss = VerifiableSecretSharing::new(prime, generator);
\* let coefficients = (0..threshold).map(|x| m.construct_polynomial(x as i64))
MainCoefficients ==
  /\ pc = "coefficients"
  /\ vss' = VerifiableSecretSharingNew(MainPrime, MainGenerator)
  /\ coefficients' = [i \in 1..m.threshold |-> Evaluate(m, i - 1)]
  /\ pc' = "generate_commitments"
  /\ UNCHANGED <<s, m, panicked, sum, reconstructed_secret, is_valid,
                 ApiVars, OtherVars>>

\* vss.generate_commitments(&coefficients);
MainGenerateCommitments ==
  /\ pc = "generate_commitments"
  /\ vss' = generate_commitments(vss, coefficients)
  /\ pc' = "verify"
  /\ UNCHANGED <<s, m, panicked, coefficients, sum, reconstructed_secret,
                 is_valid, ApiVars, OtherVars>>

\* One iteration of `for &(x, y) in shares`.
MainVerifyShare ==
  /\ pc = "verify"
  /\ Len(is_valid) < Len(s.generated_shares)
  /\ LET sh == s.generated_shares[Len(is_valid) + 1]
     IN  is_valid' = Append(is_valid, vss_verify_share(vss, sh[1], sh[2]))
  /\ UNCHANGED <<s, m, vss, pc, panicked, coefficients, sum,
                 reconstructed_secret, ApiVars, OtherVars>>

MainExit ==
  /\ pc = "verify"
  /\ Len(is_valid) = Len(s.generated_shares)
  /\ pc' = "done"
  /\ UNCHANGED <<s, m, vss, panicked, coefficients, sum, reconstructed_secret,
                 is_valid, ApiVars, OtherVars>>

NextMain ==
  \/ MainClone
  \/ MainGenerateShares
  \/ MainConstructPolynomial
  \/ MainReconstructSecret
  \/ MainCoefficients
  \/ MainGenerateCommitments
  \/ MainVerifyShare
  \/ MainExit

SpecMain == InitMain /\ [][NextMain]_vars

(* ------------------------- mod_exp on its own --------------------------- *)
InitModExp ==
  /\ \E base \in (-ModExpMaxBase)..ModExpMaxBase, exp \in 0..ModExpMaxExp,
        modulus \in 2..ModExpMaxModulus :
       me = [base |-> base, exp |-> exp, modulus |-> modulus, result |-> 0,
             done |-> FALSE]
  /\ s = IdleSession
  /\ m = IdleSession
  /\ vss = VerifiableSecretSharingNew(MainPrime, MainGenerator)
  /\ ret = NoRet
  /\ evalLog = <<>>
  /\ reconstructCalled = FALSE
  /\ panicked = FALSE
  /\ pc = "mod_exp"
  /\ coefficients = <<>>
  /\ sum = 0
  /\ reconstructed_secret = 0
  /\ is_valid = <<>>
  /\ w = 0

CallModExp ==
  /\ ~me.done
  /\ me' = [me EXCEPT !.result = mod_exp(me.base, me.exp, me.modulus),
                      !.done = TRUE]
  /\ UNCHANGED <<s, m, vss, ret, evalLog, reconstructCalled, panicked, pc,
                 coefficients, sum, reconstructed_secret, is_valid, w>>

NextModExp == CallModExp

SpecModExp == InitModExp /\ [][NextModExp]_vars

(* ------------------- sessions with full-width secrets ------------------- *)
\* An i64 has 63 value bits; an f64 has a 53-bit significand.
I64ValueBits == 63
F64Significand == 53

\* A non-negative integer below 2^64 is a sequence of 64 bits, bit k (of
\* weight 2^k) at index k + 1.
WideLen == I64ValueBits + 1

RECURSIVE BitOf(_, _)
\* Bit k of the natural number n.
BitOf(n, k) ==
  IF n = 0 THEN 0
  ELSE IF k = 0 THEN n % 2 ELSE BitOf(n \div 2, k - 1)

\* The bits of 2^e + lo, for lo < 2^e.
WideOf(e, lo) ==
  [k \in 1..WideLen |-> IF k - 1 = e THEN 1 ELSE BitOf(lo, k - 1)]

\* Index of the highest set bit (0 when there is none).
Msb(b) ==
  IF \E k \in 1..WideLen : b[k] = 1
  THEN CHOOSE k \in 1..WideLen : b[k] = 1 /\ \A j \in (k + 1)..WideLen : b[j] = 0
  ELSE 0

RECURSIVE AddBitAt(_, _)
\* b + 2^(k-1), carrying upwards.
AddBitAt(b, k) ==
  IF k > WideLen THEN b
  ELSE IF b[k] = 0 THEN [b EXCEPT ![k] = 1]
  ELSE AddBitAt([b EXCEPT ![k] = 0], k + 1)

\* `y as f64`: the nearest value with a 53-bit significand, ties to the even
\* significand.  The result is an integer, kept as its bits.
I64ToF64(b) ==
  IF Msb(b) <= F64Significand THEN b
  ELSE LET drop == Msb(b) - F64Significand      \* bits 1..drop are dropped
           kept == [k \in 1..WideLen |-> IF k <= drop THEN 0 ELSE b[k]]
           half == b[drop] = 1
           sticky == \E k \in 1..(drop - 1) : b[k] = 1
           odd == b[drop + 1] = 1
       IN  IF half /\ (sticky \/ odd) THEN AddBitAt(kept, drop + 1) ELSE kept

\* f64::round of an integer value is the value; `as i64` saturates at
\* i64::MAX.
F64RoundToI64(f) ==
  IF f[WideLen] = 1 THEN [k \in 1..WideLen |-> IF k = WideLen THEN 0 ELSE 1]
  ELSE f

\* The value of bits 8c+1 .. 8c+8 of e.
Octet(e, c) ==
  e[8 * c + 1] + 2 * e[8 * c + 2] + 4 * e[8 * c + 3] + 8 * e[8 * c + 4]
    + 16 * e[8 * c + 5] + 32 * e[8 * c + 6] + 64 * e[8 * c + 7]
    + 128 * e[8 * c + 8]

\* The exponent e, given by its bits, reduced modulo n.
WideMod(e, n) ==
  (Octet(e, 0) + Octet(e, 1) * ModPow(256, 1, n)
   + Octet(e, 2) * ModPow(256, 2, n) + Octet(e, 3) * ModPow(256, 3, n)
   + Octet(e, 4) * ModPow(256, 4, n) + Octet(e, 5) * ModPow(256, 5, n)
   + Octet(e, 6) * ModPow(256, 6, n) + Octet(e, 7) * ModPow(256, 7, n)) % n

\* BigInt::modpow(b, e, modulus) for a prime modulus that does not divide b
\* and the exponent given by its bits: b^e = b^(e mod (modulus - 1)).
ModPowBits(b, e, modulus) ==
  ModPow(b, WideMod(e, modulus - 1), modulus)

WideSecrets ==
  { WideOf(e, lo) : e \in {F64Significand - 1, F64Significand,
                           F64Significand + 1},
                    lo \in 0..WideMaxLow }

\* SharmirModel::new(secret, shares, 1)
WideNew(secret, shares) ==
  [secret |-> secret, shares |-> shares, threshold |-> 1,
   generated_shares |-> <<>>, coefficients |-> <<>>,
   vss_commitments |-> NoCommitments,
   reconstructed |-> <<>>, from |-> 0]

\* construct_polynomial with threshold 1: no coefficient is drawn, and the
\* loop over coefficients[1..] adds nothing to sum = secret.
WideConstructPolynomial(sess, x) ==
  IF NeedsCoefficients(sess)
  THEN LET t == [sess EXCEPT !.coefficients = <<sess.secret>>,
                             !.vss_commitments =
                               [some |-> TRUE,
                                commitments |->
                                  <<ModPowBits(VssG, sess.secret, VssP)>>]]
       IN  [sess |-> t, value |-> t.secret]
  ELSE [sess |-> sess, value |-> sess.secret]

RECURSIVE WideGenerateSharesLoop(_, _, _)
WideGenerateSharesLoop(sess, i, new_shares) ==
  IF i >= sess.shares
  THEN [sess EXCEPT !.generated_shares = new_shares]
  ELSE LET o == WideConstructPolynomial(sess, FirstX + i)
       IN  WideGenerateSharesLoop(o.sess, i + 1,
                                  Append(new_shares, <<FirstX + i, o.value>>))

\* reconstruct_secret on a slice of one share: lagrange_basis returns
\* (1.0, 1.0), so result = 0.0 + (y as f64) * 1.0 / 1.0 = y as f64, and
\* the return value is result.round() as i64.
WideReconstructSecret(share) ==
  F64RoundToI64(I64ToF64(share[2]))

InitWide ==
  /\ \E secret \in WideSecrets, shares \in 1..WideMaxShares :
       w = WideNew(secret, shares)
  /\ s = IdleSession
  /\ m = IdleSession
  /\ vss = VerifiableSecretSharingNew(MainPrime, MainGenerator)
  /\ ret = NoRet
  /\ evalLog = <<>>
  /\ reconstructCalled = FALSE
  /\ panicked = FALSE
  /\ pc = "wide"
  /\ coefficients = <<>>
  /\ sum = 0
  /\ reconstructed_secret = 0
  /\ is_valid = <<>>
  /\ me = IdleMe

NotWide == <<s, m, vss, ret, evalLog, reconstructCalled, panicked, pc,
             coefficients, sum, reconstructed_secret, is_valid, me>>

WideGenerateShares ==
  /\ w.generated_shares = <<>>
  /\ w' = WideGenerateSharesLoop(w, 0, <<>>)
  /\ UNCHANGED NotWide

WideCallReconstructSecret(idx) ==
  /\ w' = [w EXCEPT !.reconstructed =
                       WideReconstructSecret(w.generated_shares[idx]),
                    !.from = idx]
  /\ UNCHANGED NotWide

NextWide ==
  \/ WideGenerateShares
  \/ \E idx \in 1..Len(w.generated_shares) : WideCallReconstructSecret(idx)

SpecWide == InitWide /\ [][NextWide]_vars

(* ------------------------- claims under Spec --------------------------- *)
\* The session was created the way the command line is meant to be used:
\* a non-negative secret and 1 <= threshold <= shares.
ValidParams ==
  s.secret >= 0 /\ s.threshold >= 1 /\ s.threshold <= s.shares

\* C2: reconstruct_secret called with fewer shares than the threshold fails
\* with InsufficientShares and returns no integer.
C2_SubThresholdFails ==
  (ValidParams /\ ret.op = "reconstruct_secret" /\ ret.len >= 1
     /\ ret.len < s.threshold)
    => ret.err = "InsufficientShares"

\* C3: every generated share has x # 0 and the x values are pairwise distinct.
C3_ShareCoordinates ==
  ValidParams =>
  /\ \A i \in 1..Len(s.generated_shares) : s.generated_shares[i][1] # 0
  /\ \A i, j \in 1..Len(s.generated_shares) :
       i # j => s.generated_shares[i][1] # s.generated_shares[j][1]

\* C6: with threshold = 0 or threshold > shares nothing is produced, and no
\* stored polynomial has a length other than the threshold.
C6_InvalidThresholdRejected ==
  ~panicked =>
    /\ (s.threshold = 0 \/ s.threshold > s.shares)
         => /\ s.coefficients = <<>>
            /\ ~s.vss_commitments.some
            /\ s.generated_shares = <<>>
    /\ s.coefficients # <<>> => Len(s.coefficients) = s.threshold

\* C8: once the coefficient vector is non-empty no call changes it or the
\* commitments, and construct_polynomial(x) returns what it returned before
\* for the same x.
C8_CoefficientsFrozen ==
  [][ /\ s.coefficients # <<>>
           => /\ s'.coefficients = s.coefficients
              /\ s'.vss_commitments = s.vss_commitments
      /\ (ret'.op = "construct_polynomial" /\ ret'.repeat)
           => ret'.value = evalLog[2] ]_vars

C8_Witness ==
  /\ ret.op = "construct_polynomial"
  /\ ret.repeat
  /\ Len(s.coefficients) >= 2
  /\ s.generated_shares # <<>>
  /\ reconstructCalled

\* C10: after reconstruct_secret has been called no operation changes the
\* coefficients, creating them for the first time included.
C10_ReconstructedTerminal ==
  [][(ValidParams /\ reconstructCalled /\ ~panicked')
       => s'.coefficients = s.coefficients]_vars

\* The share a verify call was derived from verifies.
GenuineVerifies ==
  VerifyShare(s, ret.x, ret.y - ret.d)

GenuineVssVerifies ==
  vss_verify_share(vss, ret.x, ret.y - ret.d)

C4_GeneratedSharesVerify ==
  (ret.op = "verify_share" /\ ret.d = 0) => ret.res

(* ----------------------- claims under SpecMain ------------------------- *)
\* base^exp mod modulus, the mathematical value in 0..modulus-1.
RECURSIVE MathPowMod(_, _, _)
MathPowMod(base, exp, modulus) ==
  IF exp = 0 THEN 1 % modulus
  ELSE LET r == MathPowMod(base, exp - 1, modulus) * base
       IN  r - modulus * (r \div modulus)

\* C9: the sequence passed to generate_commitments is the coefficient
\* sequence of the polynomial whose evaluations are the printed shares, and
\* commitment i is g^(a_i) mod p for that polynomial.
C9_CommitmentsOfSharePolynomial ==
  (ValidParams /\ pc \in {"verify", "done"})
    => /\ coefficients = s.coefficients
       /\ vss.commitments =
            [i \in 1..Len(s.coefficients) |->
               MathPowMod(MainGenerator, s.coefficients[i], MainPrime)]

(* ---------------------- claims under SpecModExp ------------------------ *)
\* C7: mod_exp returns base^exp mod modulus, a value in [0, modulus).
C7_ModExpValue ==
  me.done => /\ me.result = MathPowMod(me.base, me.exp, me.modulus)
             /\ me.result >= 0
             /\ me.result < me.modulus

(* ----------------------- claims under SpecWide ------------------------- *)
\* C1: reconstruct_secret on a threshold-sized subset of the generated
\* shares (here: any one share of a threshold-1 session) returns the secret.
C1_RoundTrip ==
  w.from # 0 => w.reconstructed = w.secret

====
